---- MODULE Spec2Model ----
(***************************************************************************)
(* Model of rater_app.py: a Streamlit rating tool.  An annotator logs in,  *)
(* is shown one sentence at a time with up to six model outputs, picks a   *)
(* 1..10 rating per output, optionally types a correction, and Save        *)
(* upserts one row per rated variant into that variant's remote sheet      *)
(* (read whole sheet, drop own old row, put new row on top, write whole    *)
(* sheet back).  Each browser session has its own session_state; sessions  *)
(* share only the remote sheets.                                           *)
(***************************************************************************)
EXTENDS Integers, Sequences, FiniteSets, TLC

VARIABLES
    master,         \* master_df: the master sheet rows (read-only after load)
    store,          \* the remote sheets: table name -> rows, top row first
    username,       \* st.session_state.username of each session ("" = not logged in)
    existing_data,  \* st.session_state.existing_data of each session
    u_index,        \* st.session_state.u_index of each session
    pills,          \* st.session_state["pills_<m>_<u_index>"] of each session
    manual_fix,     \* st.session_state["fix_<u_index>"] of each session
    pc,             \* where each session's script is: "login", "idle" (page drawn),
                    \* "read", "write" (inside safe_save_to_sheet), "saved" (the sleep)
    cur,            \* position of the Save handler in its sequence of upserts
    snap,           \* current_sheet_df: what the running upsert read
    saved_ok,       \* tables whose safe_save_to_sheet returned True in this Save
    errors          \* tables for which st.error("Error saving to ...") was shown

vars == <<master, store, username, existing_data, u_index, pills, manual_fix,
          pc, cur, snap, saved_ok, errors>>

----------------------------------------------------------------------------
(* Bounds of the model *)

\* a write is accepted only while the sheet holds at most MaxRows rows
MaxRows == 2

----------------------------------------------------------------------------
(* Configuration (rater_app.py lines 14-37) *)

\* sorted(MODEL_TAB_NAMES.keys())
model_ids == <<"A", "B", "C", "D", "E", "F">>

ModelIds == {model_ids[i] : i \in DOMAIN model_ids}

\* keys of st.session_state.existing_data: the six rating sheets and the corrections sheet
Tables == ModelIds \cup {"corrections"}

\* the reference variant whose master row gives the submission identifier
ReferenceId == "B"

\* the value get_nemotron_row_id returns when there is no reference row;
\* it stands for the Python string "Unknown" (real row ids are >= 2)
Unknown == -1

\* Python None, as returned by get_saved_rating and by session_state.get
None == -2

\* a rating cell pandas read as NaN (an empty cell): int() of it raises
NaN == -3

\* a rating cell holding text that is not a number: int() of it raises
Text == -4

\* rating_options as list(range(10)) would give it
rating_options_FromZero == <<0, 1, 2, 3, 4, 5, 6, 7, 8, 9>>

rating_options == <<1, 2, 3, 4, 5, 6, 7, 8, 9, 10>>

\* the pills the user of a run clicks: the first and the last of rating_options
ClickedRatings == {rating_options[1], rating_options[Len(rating_options)]}

Sessions == {1, 2}

Users == {"alice", "bob"}

FixTexts == {"fix"}

----------------------------------------------------------------------------
(* Conversions *)

DigitChar == <<"0", "1", "2", "3", "4", "5", "6", "7", "8", "9">>

RECURSIVE DecStr(_)
\* str() of a non-negative int
DecStr(n) ==
    IF n < 10 THEN DigitChar[n + 1]
    ELSE DecStr(n \div 10) \o DigitChar[(n % 10) + 1]

\* str(sub_id) / .astype(str): decimal digits of an int, the string itself otherwise
str(x) == IF x = Unknown THEN "Unknown" ELSE DecStr(x)

\* Python truthiness of `if saved_val:` for an int-or-None
Truthy(v) == v # None /\ v # 0

Min(S) == CHOOSE x \in S : \A y \in S : x <= y

----------------------------------------------------------------------------
(* Master data *)

RECURSIVE Unique(_)
\* df["incorrect"].unique().tolist(): values in order of first appearance
Unique(rows) ==
    IF rows = <<>> THEN <<>>
    ELSE LET front == Unique(SubSeq(rows, 1, Len(rows) - 1))
             last  == rows[Len(rows)].incorrect
         IN IF \E i \in DOMAIN front : front[i] = last THEN front
            ELSE Append(front, last)

unique_list == Unique(master)

\* master sheet of the navigation runs: s1 has a reference row (row id 2),
\* s2 (variants A and C) and s3 (variant A) have none
MasterNarrow ==
    << [incorrect |-> "s1", id |-> "B"],
       [incorrect |-> "s2", id |-> "A"], [incorrect |-> "s2", id |-> "C"],
       [incorrect |-> "s3", id |-> "A"] >>

\* master sheet of the two-session runs: one sentence, with a reference row (row id 2)
MasterRace ==
    << [incorrect |-> "s1", id |-> "B"] >>

\* master sheet of the six-variant runs: s1 has all six variants, s2 only B
MasterWide ==
    << [incorrect |-> "s1", id |-> "A"], [incorrect |-> "s1", id |-> "B"],
       [incorrect |-> "s1", id |-> "C"], [incorrect |-> "s1", id |-> "D"],
       [incorrect |-> "s1", id |-> "E"], [incorrect |-> "s1", id |-> "F"],
       [incorrect |-> "s2", id |-> "B"] >>

\* master sheet of the correction runs: s1 has a reference row (row id 2), s2 has none
MasterFix ==
    << [incorrect |-> "s1", id |-> "B"], [incorrect |-> "s2", id |-> "A"] >>

\* subset.index[0] + 2, or "Unknown".  master_df[i] here is pandas row i-1.
get_nemotron_row_id(master_df, current_incorrect) ==
    LET hits == {i \in DOMAIN master_df :
                    master_df[i].incorrect = current_incorrect
                    /\ master_df[i].id = ReferenceId}
    IN IF hits # {} THEN (Min(hits) - 1) + 2 ELSE Unknown

\* current_incorrect = unique_list[u_index] (u_index is 0-based)
current_incorrect(s) == unique_list[u_index[s] + 1]

nem_row_id(s) == get_nemotron_row_id(master, current_incorrect(s))

\* `not m_row.empty`: variant m_id has a master row for the sentence, so its pills are drawn
Shown(m_id, sentence) ==
    \E i \in DOMAIN master : master[i].incorrect = sentence /\ master[i].id = m_id

----------------------------------------------------------------------------
(* Helper functions (rater_app.py lines 102-187) *)

\* the row mask of get_saved_rating, get_saved_correction and safe_save_to_sheet
Mask(row, sub_id, user) ==
    str(row.submission_id) = str(sub_id) /\ row.user = user

\* df.columns of a frame that has rows (every row of a frame has the same columns)
Columns(df) == DOMAIN df[1]

\* try: return int(row["rating"]) / except: return None
TryInt(row) ==
    IF "rating" \in DOMAIN row /\ row.rating # NaN /\ row.rating # Text
    THEN row.rating
    ELSE None

\* get_saved_rating returning the rating cell as it is, without int(...)
get_saved_rating_RawCell(cache, user, m_id, sub_id) ==
    LET df == cache[m_id]
    IN IF df # <<>> /\ {"submission_id", "user"} \subseteq Columns(df)
       THEN LET match == SelectSeq(df, LAMBDA r : Mask(r, sub_id, user))
            IN IF match # <<>> /\ "rating" \in DOMAIN match[1]
               THEN match[1].rating ELSE None
       ELSE None

get_saved_rating(cache, user, m_id, sub_id) ==
    LET df == cache[m_id]
    IN IF df # <<>> /\ {"submission_id", "user"} \subseteq Columns(df)
       THEN LET match == SelectSeq(df, LAMBDA r : Mask(r, sub_id, user))
            IN IF match # <<>> THEN TryInt(match[1]) ELSE None
       ELSE None

get_saved_correction(cache, user, sub_id) ==
    LET df    == cache["corrections"]
        match == SelectSeq(df, LAMBDA r : Mask(r, sub_id, user))
    IN IF df # <<>> /\ match # <<>> THEN match[1].user_corrected ELSE ""

\* "submission_id": int(nem_row_id) if nem_row_id != "Unknown" else 0
EntryId(sub_id) == IF sub_id # Unknown THEN sub_id ELSE 0

\* new_entry / user_entry built by the Save handler for table t
NewEntry(t, sub_id, user, val, text) ==
    IF t = "corrections"
    THEN [submission_id |-> EntryId(sub_id), user |-> user, user_corrected |-> text]
    ELSE [submission_id |-> EntryId(sub_id), user |-> user, rating |-> val]

\* updated_df without step 2: the old rows of the key are kept
updated_df_NoFilter(current_sheet_df, new_entry, sub_id, user) ==
    IF current_sheet_df # <<>>
    THEN <<new_entry>> \o current_sheet_df
    ELSE <<new_entry>>

\* steps 2-3 of safe_save_to_sheet: drop own old rows, new entry on top
updated_df(current_sheet_df, new_entry, sub_id, user) ==
    IF current_sheet_df # <<>>
    THEN <<new_entry>> \o SelectSeq(current_sheet_df, LAMBDA r : ~Mask(r, sub_id, user))
    ELSE <<new_entry>>

----------------------------------------------------------------------------
(* Page rendering: pre-fill of the widgets (rater_app.py lines 224-259) *)

\* widget values of the page for sentence index idx, as pre-filled from the cache.
\* The widget keys carry u_index, so a page shown anew starts from the pre-fill.
PrefillPills(cache, user, idx) ==
    LET sentence == unique_list[idx + 1]
        sub_id   == get_nemotron_row_id(master, sentence)
    IN [m \in ModelIds |->
          IF Shown(m, sentence)
          THEN LET saved_val == get_saved_rating(cache, user, m, sub_id)
               IN IF Truthy(saved_val) THEN saved_val ELSE None
          ELSE None]

PrefillFix(cache, user, idx) ==
    get_saved_correction(cache, user, get_nemotron_row_id(master, unique_list[idx + 1]))

----------------------------------------------------------------------------
(* The Save handler's sequence of upserts (rater_app.py lines 262-297) *)

\* the upserts in the order the handler makes them: model_ids, then the correction
TaskOrder == model_ids \o <<"corrections">>

\* `if val is not None` / `if manual_fix`
Selected(s, t) ==
    IF t = "corrections" THEN manual_fix[s] # "" ELSE pills[s][t] # None

\* first upsert at position >= from that the handler makes, 0 when none is left
NextTask(s, from) ==
    LET left == {i \in from .. Len(TaskOrder) : Selected(s, TaskOrder[i])}
    IN IF left = {} THEN 0 ELSE Min(left)

CurTable(s) == TaskOrder[cur[s]]

CurEntry(s) ==
    NewEntry(CurTable(s), nem_row_id(s), username[s],
             IF CurTable(s) = "corrections" THEN None ELSE pills[s][CurTable(s)],
             manual_fix[s])

----------------------------------------------------------------------------
(* Actions *)

\* Login form submitted with a non-empty name, then the first full script run:
\* sync_existing_ratings reads every sheet (a failed read caches an empty frame),
\* u_index starts at 0 and the first page is drawn.  outages: the sets of sheets
\* whose read may fail during the sync of this run; names: the names typed.
Login(s, names, outages) ==
    /\ pc[s] = "login"
    /\ \E user \in names, failed \in outages :
         LET cache == [t \in Tables |-> IF t \in failed THEN <<>> ELSE store[t]]
         IN /\ username' = [username EXCEPT ![s] = user]
            /\ existing_data' = [existing_data EXCEPT ![s] = cache]
            /\ u_index' = [u_index EXCEPT ![s] = 0]
            /\ pills' = [pills EXCEPT ![s] = PrefillPills(cache, user, 0)]
            /\ manual_fix' = [manual_fix EXCEPT ![s] = PrefillFix(cache, user, 0)]
    /\ pc' = [pc EXCEPT ![s] = "idle"]
    /\ UNCHANGED <<master, store, cur, snap, saved_ok, errors>>

\* a rerun draws the page for sentence index idx in session s; the messages of
\* the run before (st.error, st.success) are gone
ShowPage(s, idx) ==
    /\ saved_ok' = [saved_ok EXCEPT ![s] = {}]
    /\ errors' = [errors EXCEPT ![s] = {}]
    /\ u_index' = [u_index EXCEPT ![s] = idx]
    /\ pills' = [pills EXCEPT ![s] = PrefillPills(existing_data'[s], username[s], idx)]
    /\ manual_fix' = [manual_fix EXCEPT ![s] = PrefillFix(existing_data'[s], username[s], idx)]

\* a rerun that draws the same page again: the widget values stay, the
\* messages of the run before are gone
Rerun(s) ==
    /\ saved_ok' = [saved_ok EXCEPT ![s] = {}]
    /\ errors' = [errors EXCEPT ![s] = {}]
    /\ UNCHANGED <<u_index, pills, manual_fix>>

\* `if st.session_state.u_index >= len(unique_list)`: the "All done!" screen
AllDone(s) == u_index[s] >= Len(unique_list)

\* "Prev" button: one sentence back, on the first sentence only a rerun
PrevButton(s) ==
    /\ pc[s] = "idle"
    /\ UNCHANGED <<master, store, username, existing_data, pc, cur, snap>>
    /\ IF u_index[s] > 0 THEN ShowPage(s, u_index[s] - 1) ELSE Rerun(s)

\* "Next" button: one sentence on, on the last sentence only a rerun
NextButton(s) ==
    /\ pc[s] = "idle"
    /\ UNCHANGED <<master, store, username, existing_data, pc, cur, snap>>
    /\ IF u_index[s] < Len(unique_list) - 1 THEN ShowPage(s, u_index[s] + 1) ELSE Rerun(s)

\* the variants an annotator who rates in grid order and never clears a pill
\* clicks next: the first drawn variant without a rating
FirstUnrated(s) ==
    LET open == {i \in DOMAIN model_ids :
                    Shown(model_ids[i], current_incorrect(s)) /\ pills[s][model_ids[i]] = None}
    IN IF open = {} THEN {} ELSE {model_ids[Min(open)]}

\* the user clicks a pill of a drawn variant (clicking the selected pill again
\* clears it).  inputs: the pill values, variants: the variants clicked in this run.
SelectPill(s, inputs, variants) ==
    /\ pc[s] = "idle"
    /\ \E m \in variants, v \in inputs \cup {None} :
         /\ Shown(m, current_incorrect(s))
         /\ v # pills[s][m]
         /\ pills' = [pills EXCEPT ![s][m] = v]
    /\ saved_ok' = [saved_ok EXCEPT ![s] = {}]
    /\ errors' = [errors EXCEPT ![s] = {}]
    /\ UNCHANGED <<master, store, username, existing_data, u_index, manual_fix,
                   pc, cur, snap>>

\* the user edits the correction text area
EditFix(s) ==
    /\ pc[s] = "idle"
    /\ \E text \in FixTexts \cup {""} :
         /\ text # manual_fix[s]
         /\ manual_fix' = [manual_fix EXCEPT ![s] = text]
    /\ saved_ok' = [saved_ok EXCEPT ![s] = {}]
    /\ errors' = [errors EXCEPT ![s] = {}]
    /\ UNCHANGED <<master, store, username, existing_data, u_index, pills,
                   pc, cur, snap>>

\* Continue with the loop left at the first upsert that returned False
Continue_StopAtError(s, done, ok, err) ==
    LET n == IF err # {} THEN 0 ELSE NextTask(s, done + 1)
    IN /\ pc' = [pc EXCEPT ![s] = IF n # 0 THEN "read" ELSE "saved"]
       /\ cur' = [cur EXCEPT ![s] = n]
       /\ saved_ok' = [saved_ok EXCEPT ![s] = ok]
       /\ errors' = [errors EXCEPT ![s] = err]
       /\ UNCHANGED <<u_index, pills, manual_fix>>

\* the handler goes on after the upsert at position `done` returned: with the
\* next upsert of the loop, or with st.success("Saved!") and the 0.5 s sleep.
\* ok and err are the upserts that returned True and False so far.
Continue(s, done, ok, err) ==
    LET n == NextTask(s, done + 1)
    IN /\ pc' = [pc EXCEPT ![s] = IF n # 0 THEN "read" ELSE "saved"]
       /\ cur' = [cur EXCEPT ![s] = n]
       /\ saved_ok' = [saved_ok EXCEPT ![s] = ok]
       /\ errors' = [errors EXCEPT ![s] = err]
       /\ UNCHANGED <<u_index, pills, manual_fix>>

\* "Save Ratings" clicked: the handler starts with its first upsert, if any
SaveClick(s) ==
    /\ pc[s] = "idle"
    /\ UNCHANGED <<master, store, username, existing_data, snap>>
    /\ Continue(s, 0, {}, {})

\* safe_save_to_sheet step 1: conn.read(worksheet_id=gid, ttl=0) returns the sheet
SaveReadOk(s) ==
    /\ pc[s] = "read"
    /\ snap' = [snap EXCEPT ![s] = store[CurTable(s)]]
    /\ pc' = [pc EXCEPT ![s] = "write"]
    /\ UNCHANGED <<master, store, username, existing_data, u_index, pills,
                   manual_fix, cur, saved_ok, errors>>

\* safe_save_to_sheet step 1: conn.read raises; the inner except substitutes pd.DataFrame()
SaveReadFail(s) ==
    /\ pc[s] = "read"
    /\ snap' = [snap EXCEPT ![s] = <<>>]
    /\ pc' = [pc EXCEPT ![s] = "write"]
    /\ UNCHANGED <<master, store, username, existing_data, u_index, pills,
                   manual_fix, cur, saved_ok, errors>>

\* Updated computed from the sheet as it is at write time, not from what was read
Updated_FromLiveSheet(s) ==
    updated_df(store[CurTable(s)], CurEntry(s), nem_row_id(s), username[s])

\* the frame safe_save_to_sheet writes for the running upsert of session s
Updated(s) == updated_df(snap[s], CurEntry(s), nem_row_id(s), username[s])

\* safe_save_to_sheet steps 2-4 with conn.update succeeding: the sheet is
\* overwritten, the session cache replaced, True returned
SaveWriteOk(s) ==
    /\ pc[s] = "write"
    /\ Len(Updated(s)) <= MaxRows
    /\ store' = [store EXCEPT ![CurTable(s)] = Updated(s)]
    /\ existing_data' = [existing_data EXCEPT ![s][CurTable(s)] = Updated(s)]
    /\ snap' = [snap EXCEPT ![s] = <<>>]
    /\ UNCHANGED <<master, username>>
    /\ Continue(s, cur[s], saved_ok[s] \cup {CurTable(s)}, errors[s])

\* safe_save_to_sheet steps 2-4 with conn.update raising: st.error, False returned
SaveWriteFail(s) ==
    /\ pc[s] = "write"
    /\ snap' = [snap EXCEPT ![s] = <<>>]
    /\ UNCHANGED <<master, store, username, existing_data>>
    /\ Continue(s, cur[s], saved_ok[s], errors[s] \cup {CurTable(s)})

\* Advance staying on the sentence when an upsert of the Save returned False
Advance_OnlyIfStored(s) ==
    /\ pc[s] = "saved"
    /\ pc' = [pc EXCEPT ![s] = "idle"]
    /\ UNCHANGED <<master, store, username, existing_data, cur, snap>>
    /\ IF u_index[s] < Len(unique_list) - 1 /\ errors[s] = {}
       THEN ShowPage(s, u_index[s] + 1)
       ELSE UNCHANGED <<u_index, pills, manual_fix, saved_ok, errors>>

\* Advance with u_index incremented on the last sentence too: the script then
\* stops at the "All done!" screen and draws no widget
Advance_PastLast(s) ==
    /\ pc[s] = "saved"
    /\ pc' = [pc EXCEPT ![s] = "idle"]
    /\ UNCHANGED <<master, store, username, existing_data, cur, snap>>
    /\ IF u_index[s] < Len(unique_list) - 1
       THEN ShowPage(s, u_index[s] + 1)
       ELSE /\ u_index' = [u_index EXCEPT ![s] = u_index[s] + 1]
            /\ pills' = [pills EXCEPT ![s] = [m \in ModelIds |-> None]]
            /\ manual_fix' = [manual_fix EXCEPT ![s] = ""]
            /\ saved_ok' = [saved_ok EXCEPT ![s] = {}]
            /\ errors' = [errors EXCEPT ![s] = {}]

\* end of the Save handler, after the sleep: advance and rerun unless on the
\* last sentence (where the page and its messages stay as they are)
Advance(s) ==
    /\ pc[s] = "saved"
    /\ pc' = [pc EXCEPT ![s] = "idle"]
    /\ UNCHANGED <<master, store, username, existing_data, cur, snap>>
    /\ IF u_index[s] < Len(unique_list) - 1
       THEN ShowPage(s, u_index[s] + 1)
       ELSE UNCHANGED <<u_index, pills, manual_fix, saved_ok, errors>>

----------------------------------------------------------------------------
(* Specifications *)

EmptyStore == [t \in Tables |-> <<>>]

\* sheet "B" already holds bob's rating 5 of sentence s1 (submission id 2)
SeededStore ==
    [EmptyStore EXCEPT !["B"] = <<[submission_id |-> 2, user |-> "bob", rating |-> 5]>>]

InitSessions ==
    /\ username = [s \in Sessions |-> ""]
    /\ existing_data = [s \in Sessions |-> EmptyStore]
    /\ u_index = [s \in Sessions |-> 0]
    /\ pills = [s \in Sessions |-> [m \in ModelIds |-> None]]
    /\ manual_fix = [s \in Sessions |-> ""]
    /\ pc = [s \in Sessions |-> "login"]
    /\ cur = [s \in Sessions |-> 0]
    /\ snap = [s \in Sessions |-> <<>>]
    /\ saved_ok = [s \in Sessions |-> {}]
    /\ errors = [s \in Sessions |-> {}]

\* one browser session rating three sentences, two of which have no reference
\* row; the optional correction is left empty
Init ==
    /\ master = MasterNarrow
    /\ store \in {EmptyStore, SeededStore}
    /\ InitSessions

Next ==
    \/ Login(1, Users, {{}, Tables})
    \/ PrevButton(1)
    \/ NextButton(1)
    \/ SelectPill(1, ClickedRatings, ModelIds)
    \/ SaveClick(1)
    \/ SaveReadOk(1)
    \/ SaveReadFail(1)
    \/ SaveWriteOk(1)
    \/ SaveWriteFail(1)
    \/ Advance(1)

Spec == Init /\ [][Next]_vars

\* one browser session, a sentence with all six variants; the annotator rates
\* the variants in grid order with the last pill of rating_options
InitWide ==
    /\ master = MasterWide
    /\ store = EmptyStore
    /\ InitSessions

NextWide ==
    \/ Login(1, Users, {{}})
    \/ PrevButton(1)
    \/ NextButton(1)
    \/ SelectPill(1, {rating_options[Len(rating_options)]}, FirstUnrated(1))
    \/ EditFix(1)
    \/ SaveClick(1)
    \/ SaveReadOk(1)
    \/ SaveReadFail(1)
    \/ SaveWriteOk(1)
    \/ SaveWriteFail(1)
    \/ Advance(1)

SpecWide == InitWide /\ [][NextWide]_vars

\* two browser sessions working on the same sheets at the same time, the store
\* answering every request; session 1 is alice's, session s clicks pill s
InitRace ==
    /\ master = MasterRace
    /\ store \in {EmptyStore, SeededStore}
    /\ InitSessions

NextRace ==
    \E s \in Sessions :
        \/ Login(s, IF s = 1 THEN {"alice"} ELSE Users, {{}})
        \/ SelectPill(s, {rating_options[s]}, ModelIds)
        \/ EditFix(s)
        \/ SaveClick(s)
        \/ SaveReadOk(s)
        \/ SaveWriteOk(s)
        \/ Advance(s)

SpecRace == InitRace /\ [][NextRace]_vars

\* one browser session rating and correcting two sentences, one of which has no
\* reference row; the annotator clicks the first pill of rating_options
InitFix ==
    /\ master = MasterFix
    /\ store = EmptyStore
    /\ InitSessions

NextFix ==
    \/ Login(1, Users, {{}})
    \/ PrevButton(1)
    \/ NextButton(1)
    \/ SelectPill(1, {rating_options[1]}, ModelIds)
    \/ EditFix(1)
    \/ SaveClick(1)
    \/ SaveReadOk(1)
    \/ SaveReadFail(1)
    \/ SaveWriteOk(1)
    \/ SaveWriteFail(1)
    \/ Advance(1)

SpecFix == InitFix /\ [][NextFix]_vars

\* rating cells of a sheet edited by hand: a number, an empty cell, text
RatingCells == {rating_options[5], NaN, Text}

\* rows of sheet "B" edited by hand, for sentence s1 of MasterNarrow
EditedRows == [submission_id : {get_nemotron_row_id(MasterNarrow, "s1")},
               user : Users, rating : RatingCells]

\* sheet "B" as conn.read may return it after edits by hand: no rows, one row
\* (also with the submission_id, user or rating column deleted), or a row of
\* each annotator
EditedFrames ==
    {<<>>}
    \cup { <<r>> : r \in EditedRows }
    \cup { <<[user |-> r.user, rating |-> r.rating]>> : r \in EditedRows }
    \cup { <<[submission_id |-> r.submission_id, rating |-> r.rating]>> : r \in EditedRows }
    \cup { <<[submission_id |-> r.submission_id, user |-> r.user]>> : r \in EditedRows }
    \cup { <<p[1], p[2]>> : p \in {q \in EditedRows \X EditedRows : q[1].user # q[2].user} }

\* one browser session paging through the sentences over a sheet edited by hand
InitPrefill ==
    /\ master = MasterNarrow
    /\ store \in { [EmptyStore EXCEPT !["B"] = f] : f \in EditedFrames }
    /\ InitSessions

NextPrefill ==
    \/ Login(1, Users, {{}, Tables})
    \/ PrevButton(1)
    \/ NextButton(1)

SpecPrefill == InitPrefill /\ [][NextPrefill]_vars

----------------------------------------------------------------------------
(* Vocabulary of the properties *)

\* number of rows of df stored under submission id sid for annotator user
KeyCount(df, sid, user) ==
    Len(SelectSeq(df, LAMBDA r : r.submission_id = sid /\ r.user = user))

Rows(df) == {df[i] : i \in DOMAIN df}

\* session s is in an upsert of a rating sheet
RatingUpsert(s) == pc[s] \in {"read", "write"} /\ CurTable(s) \in ModelIds

\* the sentence of session s has a reference row
HasReference(s) == Shown(ReferenceId, current_incorrect(s))

\* no other sentence of the master list is stored in table t under the same
\* submission id as the sentence of session s
OnlySentenceOfKey(s, t) ==
    \A i \in DOMAIN unique_list :
        (unique_list[i] # current_incorrect(s) /\ Shown(t, unique_list[i]))
            => EntryId(get_nemotron_row_id(master, unique_list[i])) # EntryId(nem_row_id(s))

----------------------------------------------------------------------------
(* C1 *)

\* C1: in a single-session run, right after safe_save_to_sheet returned True for
\* a rating of any sentence of the master list (with or without a reference
\* row), the variant's sheet holds exactly one row for the sentence's stored
\* submission id and the annotator.
C1_ExactlyOneRowAfterSave ==
    [][\A s \in Sessions :
          (SaveWriteOk(s) /\ RatingUpsert(s))
              => KeyCount(store'[CurTable(s)], CurEntry(s).submission_id, username[s]) = 1]_vars

----------------------------------------------------------------------------
(* C2 *)

\* C2: last write wins.  When a rating sheet already holds the annotator's row
\* for this sentence (an earlier successful save of the same sentence and
\* variant, no other writer since) and the annotator's next save of it returns
\* True, the sheet holds exactly one row for the key, that row carries the new
\* rating, and the sheet has as many rows as before the second save.
C2_LastWriteWins ==
    [][\A s \in Sessions :
          (/\ SaveWriteOk(s)
           /\ RatingUpsert(s)
           /\ OnlySentenceOfKey(s, CurTable(s))
           /\ KeyCount(store[CurTable(s)], CurEntry(s).submission_id, username[s]) >= 1)
              => LET after == store'[CurTable(s)]
                     mine  == SelectSeq(after, LAMBDA r :
                                  r.submission_id = CurEntry(s).submission_id
                                  /\ r.user = username[s])
                 IN /\ Len(mine) = 1
                    /\ mine[1].rating = pills[s][CurTable(s)]
                    /\ Len(after) = Len(store[CurTable(s)])]_vars

----------------------------------------------------------------------------
(* C3 *)

\* C3: round trip.  Right after annotator X's save of rating r for a sentence
\* and variant returned True, get_saved_rating for that variant and the
\* sentence's submission identifier gives r in X's session, for every sentence
\* of the master list; for another annotator with no row for the sentence in
\* that sheet it gives None.
C3_RoundTrip ==
    [][\A s \in Sessions :
          (SaveWriteOk(s) /\ RatingUpsert(s))
              => /\ get_saved_rating(existing_data'[s], username[s], CurTable(s),
                                     nem_row_id(s)) = pills[s][CurTable(s)]
                 /\ \A y \in Users \ {username[s]} :
                       KeyCount(existing_data'[s][CurTable(s)],
                                CurEntry(s).submission_id, y) = 0
                           => get_saved_rating(existing_data'[s], y, CurTable(s),
                                               nem_row_id(s)) = None]_vars

----------------------------------------------------------------------------
(* C4 *)

\* rows of df stored under another key than (sid, user), in their order
OtherRows(df, sid, user) ==
    SelectSeq(df, LAMBDA r : ~(r.submission_id = sid /\ r.user = user))

\* C4: frame of a successful upsert in a single-session run.  The rows of the
\* sheet stored under another (submission_id, user) are all still there,
\* unchanged and in the same order, below the new row, and no other sheet
\* changes.
C4_UpsertFrame ==
    [][\A s \in Sessions :
          SaveWriteOk(s)
              => LET t   == CurTable(s)
                     sid == CurEntry(s).submission_id
                 IN /\ store'[t] # <<>>
                    /\ Head(store'[t]) = CurEntry(s)
                    /\ OtherRows(Tail(store'[t]), sid, username[s])
                           = OtherRows(store[t], sid, username[s])
                    /\ \A t2 \in Tables \ {t} : store'[t2] = store[t2]]_vars

----------------------------------------------------------------------------
(* C5 *)

\* in a single-session run: the upsert of session s is past its read, holds an
\* empty frame, and the sheet has rows, so the read failed
ReadFailed(s) ==
    pc[s] = "write" /\ snap[s] = <<>> /\ store[CurTable(s)] # <<>>

\* C5: when the fresh read of an upsert failed, the upsert ends as a reported
\* failure (st.error, False returned) and writes nothing: the sheet keeps its rows.
C5_ReadFailureAborts ==
    [][\A s \in Sessions :
          (ReadFailed(s) /\ pc'[s] # "write")
              => /\ store' = store
                 /\ CurTable(s) \in errors'[s]
                 /\ CurTable(s) \notin saved_ok'[s]]_vars

----------------------------------------------------------------------------
(* C6 *)

\* C6: a Save over several variants is not atomic.  When conn.update fails for
\* one table, nothing already written is undone and that table is not changed
\* (the whole store stays as it is in that step), the failure is reported for
\* that table only, the handler goes on with the next selected table, and at
\* the end of the Save every selected table has been attempted.
C6_PartialSave ==
    [][\A s \in Sessions :
          /\ (pc[s] = "write" /\ pc'[s] # "write" /\ CurTable(s) \notin saved_ok'[s])
                => /\ store' = store
                   /\ errors'[s] = errors[s] \cup {CurTable(s)}
                   /\ saved_ok'[s] = saved_ok[s]
                   /\ LET n == NextTask(s, cur[s] + 1)
                      IN IF n # 0
                         THEN pc'[s] = "read" /\ cur'[s] = n
                         ELSE pc'[s] = "saved"
          /\ (pc[s] = "write" /\ pc'[s] = "saved")
                => saved_ok'[s] \cup errors'[s] = {t \in Tables : Selected(s, t)}]_vars

\* a Save of all six variants and a correction in which only C's write failed
C6_Witness ==
    /\ pc[1] = "saved"
    /\ errors[1] = {"C"}
    /\ saved_ok[1] = Tables \ {"C"}
    /\ store["C"] = <<>>
    /\ \A t \in ModelIds \ {"C"} :
          store[t] = <<[submission_id |-> 3, user |-> username[1],
                        rating |-> pills[1][t]]>>
    /\ store["corrections"] # <<>>

----------------------------------------------------------------------------
(* C7 *)

\* C7: every rating in a rating sheet, and every rating a running Save is about
\* to write, is an integer from 1 to 10.
C7_RatingsInRange ==
    /\ \A t \in ModelIds : \A i \in DOMAIN store[t] : store[t][i].rating \in 1 .. 10
    /\ \A s \in Sessions : RatingUpsert(s) => CurEntry(s).rating \in 1 .. 10

\* bob, logged in over his stored rating 5 of s1, has saved a clicked 10 for s2
\* and then, back on s1, saved the pre-filled 5 again
C7_Witness ==
    /\ username[1] = "bob"
    /\ pc[1] = "saved"
    /\ u_index[1] = 0
    /\ saved_ok[1] = {"B"}
    /\ store["B"] = <<[submission_id |-> 2, user |-> "bob", rating |-> 5]>>
    /\ store["A"] = <<[submission_id |-> 0, user |-> "bob", rating |-> 10]>>

----------------------------------------------------------------------------
(* C8 *)

\* C8: lost update.  A successful write puts the writer's entry on top of what
\* the writer read: every row that another session wrote into the sheet after
\* that read is gone from the sheet.
C8_LostUpdate ==
    [][\A s \in Sessions :
          SaveWriteOk(s)
              => \A r \in Rows(store[CurTable(s)]) \ Rows(snap[s]) :
                    r # CurEntry(s) => r \notin Rows(store'[CurTable(s)])]_vars

\* both annotators' saves of the same sentence and variant returned True, the
\* sheet has no row of one of them, and that one's session cache shows the row
C8_Witness ==
    \E s \in Sessions, o \in Sessions :
        /\ username[s] # username[o]
        /\ pc[s] = "saved" /\ pc[o] = "saved"
        /\ "B" \in saved_ok[s] /\ "B" \in saved_ok[o]
        /\ KeyCount(store["B"], 2, username[o]) = 1
        /\ KeyCount(store["B"], 2, username[s]) = 0
        /\ KeyCount(existing_data[s]["B"], 2, username[s]) = 1

----------------------------------------------------------------------------
(* C9 *)

\* session s has read the sheet for an upsert of a sentence with a reference
\* row and not written yet, and since that read another session of the same
\* annotator has written its row for the same submission id into the sheet
RacedPast(s) ==
    /\ pc[s] = "write"
    /\ HasReference(s)
    /\ store[CurTable(s)] # snap[s]
    /\ store[CurTable(s)] # <<>>
    /\ Head(store[CurTable(s)]).submission_id = CurEntry(s).submission_id
    /\ Head(store[CurTable(s)]).user = username[s]
    /\ \E o \in Sessions \ {s} :
          /\ username[o] = username[s]
          /\ pc[o] = "saved"
          /\ CurTable(s) \in saved_ok[o]

\* C9 as claimed: when two sessions of one annotator both passed the read step
\* before either wrote, the second write leaves two rows for the key.
C9_RaceDuplicates ==
    [][\A s \in Sessions :
          (RacedPast(s) /\ SaveWriteOk(s))
              => KeyCount(store'[CurTable(s)], CurEntry(s).submission_id,
                          username[s]) = 2]_vars

\* at most one row per annotator under the submission id of each sentence that
\* has a reference row, in every sheet
AtMostOnePerKey ==
    \A t \in Tables, u \in Users, i \in DOMAIN unique_list :
        Shown(ReferenceId, unique_list[i])
            => KeyCount(store[t], get_nemotron_row_id(master, unique_list[i]), u) <= 1

\* C9 as amended: for a sentence with a reference row the race leaves no second
\* row.  The second write of the race leaves exactly one row for the key, and
\* no reachable sheet ever holds two rows for such a key.
C9_RaceKeepsOneRow ==
    /\ [][\A s \in Sessions :
             (RacedPast(s) /\ SaveWriteOk(s))
                 => KeyCount(store'[CurTable(s)], CurEntry(s).submission_id,
                             username[s]) = 1]_vars
    /\ []AtMostOnePerKey

\* the race window: session 1 (pill 1) is past its read of sheet B, session 2
\* of the same annotator has since written its row (pill 2) for the same key
C9_Witness ==
    /\ RacedPast(1)
    /\ CurTable(1) = "B"
    /\ username[2] = username[1]
    /\ Head(store["B"]).rating = rating_options[2]
    /\ CurEntry(1).rating = rating_options[1]

----------------------------------------------------------------------------
(* C10 *)

\* C10: for a sentence without a reference row get_nemotron_row_id gives
\* "Unknown", the submission id written into the row is the value the delete
\* filter and the pre-fill lookup match, and a save leaves one row under that
\* key for the annotator (a save of another such sentence replaces the row).
C10_SentinelKey ==
    [][\A s \in Sessions :
          (SaveWriteOk(s) /\ RatingUpsert(s) /\ ~HasReference(s))
              => /\ nem_row_id(s) = Unknown
                 /\ Mask(CurEntry(s), nem_row_id(s), username[s])
                 /\ KeyCount(store'[CurTable(s)], CurEntry(s).submission_id,
                             username[s]) = 1]_vars

----------------------------------------------------------------------------
(* C11 *)

\* user has no row at all in df
NoRowOf(df, user) == \A i \in DOMAIN df : df[i].user # user

\* C11: one Save touches exactly the sheets of the variants that have a rating
\* selected.  Every read and every write of a Save is on a selected table and
\* no other sheet changes; a successful write to a rating sheet that had no row
\* of the annotator adds exactly one row to it (the rows it had stay below),
\* carrying the sentence's submission identifier, the annotator and the
\* selected rating; and a Save whose writes all succeeded has written every
\* selected table.
C11_SaveTouchesSelected ==
    [][/\ \A s \in Sessions :
             pc[s] \in {"read", "write"} => Selected(s, CurTable(s))
       /\ \A t \in Tables :
             store'[t] # store[t]
                 => \E s \in Sessions : pc[s] = "write" /\ CurTable(s) = t
       /\ \A s \in Sessions :
             (SaveWriteOk(s) /\ RatingUpsert(s)
                  /\ NoRowOf(store[CurTable(s)], username[s]))
                 => LET after == store'[CurTable(s)]
                    IN /\ after # <<>>
                       /\ Tail(after) = store[CurTable(s)]
                       /\ Head(after).user = username[s]
                       /\ Head(after).rating = pills[s][CurTable(s)]
                       /\ str(Head(after).submission_id) = str(nem_row_id(s))
       /\ \A s \in Sessions :
             (pc[s] = "write" /\ pc'[s] = "saved" /\ errors'[s] = {})
                 => saved_ok'[s] = {t \in Tables : Selected(s, t)}]_vars

----------------------------------------------------------------------------
(* C12 *)

\* C12: corrections are upserted by key in their own sheet.  Right after the
\* write of a Save with non-empty correction text succeeded, the corrections
\* sheet holds exactly one row for the sentence's stored submission id and the
\* annotator, that row holds the text just saved, and get_saved_correction
\* gives that text for the sentence; while the correction text is empty a Save
\* neither reads nor writes the corrections sheet, which stays as it is.
C12_CorrectionUpsert ==
    [][\A s \in Sessions :
          /\ (SaveWriteOk(s) /\ CurTable(s) = "corrections")
                => LET mine == SelectSeq(store'["corrections"], LAMBDA r :
                                   r.submission_id = CurEntry(s).submission_id
                                   /\ r.user = username[s])
                   IN /\ manual_fix[s] # ""
                      /\ Len(mine) = 1
                      /\ mine[1].user_corrected = manual_fix[s]
                      /\ get_saved_correction(existing_data'[s], username[s],
                                              nem_row_id(s)) = manual_fix[s]
          /\ (pc[s] \in {"idle", "read", "write"} /\ manual_fix[s] = "" /\ pc'[s] # pc[s])
                => /\ pc[s] # "idle" => CurTable(s) # "corrections"
                   /\ pc'[s] \in {"read", "write"} => TaskOrder[cur'[s]] # "corrections"
                   /\ store'["corrections"] = store["corrections"]]_vars

----------------------------------------------------------------------------
(* C13 *)

\* the cached frame df is one the pre-fill cannot use for (sub_id, user): it is
\* empty, lacks the submission_id or the user column, or its row matching
\* (sub_id, user) has a rating cell that int() does not convert
Unusable(df, sub_id, user) ==
    \/ df = <<>>
    \/ "submission_id" \notin Columns(df)
    \/ "user" \notin Columns(df)
    \/ \E i \in DOMAIN df :
          /\ Mask(df[i], sub_id, user)
          /\ "rating" \in DOMAIN df[i]
          /\ df[i].rating \in {NaN, Text}

----------------------------------------------------------------------------
(* C14 *)

\* C14: navigation index.  u_index is always an index of the list of unique
\* sentences, so the "All done!" screen is never drawn; Prev on the first
\* sentence, Next on the last one and the end of a Save on the last one leave
\* u_index as it is, and every other step moves it by at most one.
C14_IndexInRange ==
    /\ [](\A s \in Sessions :
             u_index[s] \in 0 .. Len(unique_list) - 1 /\ ~AllDone(s))
    /\ [][\A s \in Sessions :
             /\ (PrevButton(s) /\ u_index[s] = 0) => u_index'[s] = u_index[s]
             /\ (NextButton(s) /\ u_index[s] = Len(unique_list) - 1)
                   => u_index'[s] = u_index[s]
             /\ (pc[s] = "saved" /\ pc'[s] = "idle" /\ u_index[s] = Len(unique_list) - 1)
                   => u_index'[s] = u_index[s]
             /\ u_index'[s] - u_index[s] \in {-1, 0, 1}]_vars

\* the last sentence has been saved and the Save handler has ended: its page
\* is still drawn, with the messages of the Save
C14_Witness ==
    /\ pc[1] = "idle"
    /\ u_index[1] = Len(unique_list) - 1
    /\ saved_ok[1] # {}
    /\ store["A"] # <<>>

----------------------------------------------------------------------------
(* C15 *)

\* C15: what the upserts of a Save returned does not influence what the Save
\* handler does next.  A running Save leaves an upsert only for its next
\* upsert or for "Saved!" (never back to the page), whatever the upsert
\* returned, and after "Saved!" the handler ends with u_index one higher when
\* it was below the last index (unchanged on the last sentence), whether all,
\* some or none of the upserts returned True.
C15_SaveAdvancesRegardless ==
    [][\A s \in Sessions :
          /\ (pc[s] = "write" /\ pc'[s] # "write")
                => pc'[s] = IF NextTask(s, cur[s] + 1) # 0 THEN "read" ELSE "saved"
          /\ (pc[s] = "saved" /\ pc'[s] # "saved")
                => /\ pc'[s] = "idle"
                   /\ u_index'[s] = IF u_index[s] < Len(unique_list) - 1
                                    THEN u_index[s] + 1
                                    ELSE u_index[s]]_vars

\* "Saved!" is shown on a sentence that is not the last one after a Save of
\* two variants whose upserts both returned False, nothing of it being stored
C15_Witness ==
    /\ pc[1] = "saved"
    /\ u_index[1] < Len(unique_list) - 1
    /\ saved_ok[1] = {}
    /\ errors[1] = {"A", "C"}
    /\ store["A"] = <<>> /\ store["C"] = <<>>

----------------------------------------------------------------------------
(* C16 *)

\* C16: session cache consistency in a single-session run.  After login the
\* cached copy of table t is replaced only by a successful write of t; a
\* failed write leaves the whole cache as it is; and right after every
\* successful save the cached copy of every table equals the remote sheet.
C16_CacheConsistency ==
    [][\A s \in Sessions :
          /\ \A t \in Tables :
                (pc[s] # "login" /\ existing_data'[s][t] # existing_data[s][t])
                    => SaveWriteOk(s) /\ CurTable(s) = t
          /\ (pc[s] = "write" /\ pc'[s] # "write" /\ CurTable(s) \notin saved_ok'[s])
                => existing_data'[s] = existing_data[s]
          /\ SaveWriteOk(s)
                => \A t \in Tables : existing_data'[s][t] = store'[t]]_vars

====
